---- MODULE Spec2Model ----
(***************************************************************************)
(* A model of alblogs (src/main.go): resolution of a load balancer's log   *)
(* setup with its on-disk cache (loadMetadata), selection of candidate log *)
(* files (candidateKeys), the schema derived from the field list           *)
(* (databaseSchema, insertStatement) and the transactional ingestion loop  *)
(* of run/ingestLogFile.                                                   *)
(*                                                                         *)
(* Strings the code takes apart (the ARN, object keys) are sequences of    *)
(* one-character strings; strings the code only compares are TLA+ strings. *)
(* Times are integers, one unit = one minute.                              *)
(***************************************************************************)
EXTENDS Integers, Sequences, FiniteSets, Bags, TLC

VARIABLES
    pc,          \* position of the program
    albName,     \* run: the load balancer name given on the command line
    cancelled,   \* main: ctx of signal.NotifyContext is done
    cancelAt,    \* history: "during" or "after" the work of the run, when the signal arrived
    err,         \* the error the function/run returned, "nil" when none
    cacheFile,   \* the file alblogs-cache.json
    fullCache,   \* loadMetadata: local fullCache
    albARN,      \* loadMetadata: local albARN
    meta,        \* loadMetadata: the metadata returned
    calls,       \* control-plane calls made by the current resolution
    cacheBefore, \* history: cacheFile when the current resolution started
    wrote,       \* history: outcome of os.WriteFile in this resolution, "none" if not called
    refTime,     \* run: args.time
    listed,      \* history: every object the paginator has produced so far
    out,         \* candidateKeys: local out / run: keys
    npages,      \* number of pages fetched
    cols,        \* run: cols, the field list
    idx,         \* the columns of unique index idx0 of the store
    store,       \* committed rows of table logs
    tx,          \* rows of table logs as seen inside the open transaction
    maxSamples,  \* run: args.MaxSamples
    i,           \* run: loop index over keys
    pos,         \* ingestLogFile: number of records read from the current file
    attempts,    \* history: the files attempted in this run, with their outcome
    ingested     \* history: the keys of the files committed to the store so far

resolveVars == <<albName, cacheFile, fullCache, albARN, meta, calls, cacheBefore, wrote>>
listVars    == <<refTime, listed, out, npages>>
schemaVars  == <<cols, idx>>
ingestVars  == <<store, tx, maxSamples, i, pos, attempts, ingested>>
ctx == <<cancelled, cancelAt>>
vars == <<pc, ctx, err, resolveVars, listVars, schemaVars, ingestVars>>

----------------------------------------------------------------------------
(* Bounds of the model *)

MaxArnLen == 7    \* longest identity string explored by SpecArn
MaxAttrs  == 2    \* longest attribute list of a DescribeLoadBalancerAttributes answer
MaxObjs   == 3    \* most objects a listing produces, over all its pages
MaxPages  == 2    \* most pages of a listing
MaxCols   == 3    \* longest field list explored by SpecSchema
MaxSamplesBound == 2  \* largest -n explored

----------------------------------------------------------------------------
(* Strings as sequences of characters *)

NilStr == "<nil>"          \* a nil *string of the SDK's answers
NoErr  == "nil"

RECURSIVE IndexOf(_, _, _)
\* strings.Index for a one-character separator, from position k; 0 when absent
IndexOf(s, c, k) ==
    IF k > Len(s) THEN 0
    ELSE IF s[k] = c THEN k ELSE IndexOf(s, c, k + 1)

RECURSIVE SplitN(_, _, _)
\* strings.SplitN(s, sep, n) for n > 0: at most n substrings, the last one
\* being the unsplit remainder
SplitN(s, sep, n) ==
    LET k == IndexOf(s, sep, 1) IN
    IF n = 1 \/ k = 0 THEN <<s>>
    ELSE <<SubSeq(s, 1, k - 1)>> \o SplitN(SubSeq(s, k + 1, Len(s)), sep, n - 1)

RECURSIVE Split(_, _)
\* strings.Split(s, sep): every separator splits
Split(s, sep) ==
    LET k == IndexOf(s, sep, 1) IN
    IF k = 0 THEN <<s>>
    ELSE <<SubSeq(s, 1, k - 1)>> \o Split(SubSeq(s, k + 1, Len(s)), sep)

ArnParts == 6

\* variant: strings.Split in place of strings.SplitN
accountAndRegionAllSplit(arn) ==
    LET fields == Split(arn, ":") IN
    IF Len(fields) # ArnParts
    THEN [account |-> <<>>, region |-> <<>>, err |-> "bad ARN format"]
    ELSE [account |-> fields[5], region |-> fields[4], err |-> NoErr]

accountAndRegion(arn) ==
    LET fields == SplitN(arn, ":", ArnParts) IN
    IF Len(fields) # ArnParts
    THEN [account |-> <<>>, region |-> <<>>, err |-> "bad ARN format"]
    ELSE [account |-> fields[5], region |-> fields[4], err |-> NoErr]

----------------------------------------------------------------------------
(* The metadata cache and its resolution: loadMetadata *)

Names == {"lb1", "lb2"}

EmptyMap == [n \in {} |-> n]
NoMeta   == [Account |-> <<>>, Region |-> <<>>, Bucket |-> "", Prefix |-> ""]

\* The cache file: absent/unreadable, not JSON (zero bytes, truncated), or the
\* JSON object name -> metadata
MissingFile == [kind |-> "missing", data |-> EmptyMap]
CorruptFile == [kind |-> "corrupt", data |-> EmptyMap]
JsonFile(m) == [kind |-> "json", data |-> m]

\* os.ReadFile and json.Unmarshal: the map read, nil when either fails
ReadCacheFile(f) ==
    IF f.kind = "json" THEN [isNil |-> FALSE, m |-> f.data]
                       ELSE [isNil |-> TRUE, m |-> EmptyMap]

\* variant: the cached entry is never used
CacheHitNever(f, name) == FALSE

\* `if meta, ok := fullCache[albName]; ok` under both err == nil
CacheHit(f, name) == f.kind = "json" /\ name \in DOMAIN f.data

\* variant: the map written holds the new entry alone
MergeEntryOverwrite(fc, name, m) == [n \in {name} |-> m]

\* fullCache[albName] = meta, after make() of a nil map
MergeEntry(fc, name, m) ==
    [n \in DOMAIN fc.m \cup {name} |-> IF n = name THEN m ELSE fc.m[n]]

Arn6  == <<"p", ":", "q", ":", "s", ":", "r", ":", "a", ":", "x">>
Arn6b == <<"p", ":", "q", ":", "s", ":", "e", ":", "b", ":", "y">>
Arn7  == <<"p", ":", "q", ":", "s", ":", "r", ":", "a", ":", "x", ":", "y">>
Arn3  == <<"p", ":", "q", ":", "s">>

\* Answers of DescribeLoadBalancers for a name: a failed call, or balancers
DLBAnswers(name) ==
    LET lb(n, a) == [LoadBalancerName |-> n, LoadBalancerArn |-> a]
        other    == CHOOSE n \in Names : n # name
    IN  {[fail |-> TRUE, lbs |-> <<>>]} \cup
        {[fail |-> FALSE, lbs |-> l] : l \in
            { <<>>,
              <<lb(other, Arn6)>>,
              <<lb(name, Arn6)>>,
              <<lb(name, Arn6b)>>,
              <<lb(name, Arn3)>>,
              <<lb(name, Arn7)>>,
              <<lb(name, <<>>)>>,
              <<lb(NilStr, Arn3), lb(other, Arn3), lb(name, Arn6b)>> }}

RECURSIVE FindARN(_, _, _)
\* the loop over descResult.LoadBalancers: the ARN of the first balancer
\* carrying the name, "" when there is none
FindARN(lbs, name, k) ==
    IF k > Len(lbs) THEN <<>>
    ELSE IF lbs[k].LoadBalancerName # NilStr /\ lbs[k].LoadBalancerName = name
         THEN lbs[k].LoadBalancerArn
         ELSE FindARN(lbs, name, k + 1)

AttrUniverse ==
    { [Key |-> "access_logs.s3.enabled", Value |-> "true"],
      [Key |-> "access_logs.s3.enabled", Value |-> "false"],
      [Key |-> "access_logs.s3.bucket",  Value |-> "b1"],
      [Key |-> "access_logs.s3.bucket",  Value |-> "b2"],
      [Key |-> "access_logs.s3.bucket",  Value |-> NilStr],
      [Key |-> "access_logs.s3.prefix",  Value |-> "pre"],
      [Key |-> NilStr,                   Value |-> "b1"] }

SeqsUpTo(S, n) == UNION {[1..k -> S] : k \in 0..n}

\* Answers of DescribeLoadBalancerAttributes
AttrAnswers ==
    {[fail |-> TRUE, attrs |-> <<>>]} \cup
    {[fail |-> FALSE, attrs |-> a] : a \in SeqsUpTo(AttrUniverse, MaxAttrs)}

RECURSIVE ScanAttrs(_, _, _)
\* the loop over attrResult.Attributes, m being meta so far
ScanAttrs(attrs, k, m) ==
    IF k > Len(attrs) THEN [err |-> NoErr, meta |-> m]
    ELSE LET a == attrs[k] IN
         IF a.Key = NilStr \/ a.Value = NilStr THEN ScanAttrs(attrs, k + 1, m)
         ELSE IF a.Key = "access_logs.s3.enabled" /\ a.Value # "true"
              THEN [err |-> "load balancer has S3 logging disabled", meta |-> m]
         ELSE IF a.Key = "access_logs.s3.bucket"
              THEN ScanAttrs(attrs, k + 1, [m EXCEPT !.Bucket = a.Value])
         ELSE IF a.Key = "access_logs.s3.prefix"
              THEN ScanAttrs(attrs, k + 1, [m EXCEPT !.Prefix = a.Value])
         ELSE ScanAttrs(attrs, k + 1, m)

\* loadMetadata from the answer of DescribeLoadBalancerAttributes to its
\* return: the error, the metadata, and the map handed to os.WriteFile
\* (save = FALSE when the function returns before writing)
\* variant: the cache is saved before the checks, whatever they find
FinishResolveSaveAlways(fc, name, arn, ans) ==
    LET scan == ScanAttrs(ans.attrs, 1, NoMeta)
        ar   == accountAndRegion(arn)
        m    == [scan.meta EXCEPT !.Account = ar.account, !.Region = ar.region]
        e    == IF ans.fail THEN "api error"
                ELSE IF scan.err # NoErr THEN scan.err
                ELSE IF scan.meta.Bucket = ""
                     THEN "cannot figure out which S3 bucket is used for logs"
                ELSE ar.err
    IN  [err |-> e, meta |-> IF e = NoErr THEN m ELSE NoMeta,
         save |-> TRUE, map |-> MergeEntry(fc, name, m)]

FinishResolve(fc, name, arn, ans) ==
    IF ans.fail THEN [err |-> "api error", meta |-> NoMeta, save |-> FALSE, map |-> fc.m]
    ELSE LET scan == ScanAttrs(ans.attrs, 1, NoMeta) IN
    IF scan.err # NoErr
    THEN [err |-> scan.err, meta |-> NoMeta, save |-> FALSE, map |-> fc.m]
    ELSE IF scan.meta.Bucket = ""
    THEN [err |-> "cannot figure out which S3 bucket is used for logs",
          meta |-> NoMeta, save |-> FALSE, map |-> fc.m]
    ELSE LET ar == accountAndRegion(arn) IN
    IF ar.err # NoErr
    THEN [err |-> ar.err, meta |-> NoMeta, save |-> FALSE, map |-> fc.m]
    ELSE LET m == [scan.meta EXCEPT !.Account = ar.account, !.Region = ar.region]
         IN  [err |-> NoErr, meta |-> m, save |-> TRUE, map |-> MergeEntry(fc, name, m)]

\* os.WriteFile of the marshalled map: it succeeds, fails before touching the
\* file, or fails after truncating it; the error is dropped either way
WriteOutcomes == {"ok", "fail", "partial"}
WriteFile(f, m, w) ==
    CASE w = "ok"      -> JsonFile(m)
      [] w = "fail"    -> f
      [] w = "partial" -> CorruptFile

----------------------------------------------------------------------------
(* loadMetadata, step by step *)

NoCacheRead == [isNil |-> TRUE, m |-> EmptyMap]

\* lines 347-356: read the cache file and return its entry for albName
ReadCache ==
    /\ pc = "start"
    /\ fullCache' = ReadCacheFile(cacheFile)
    /\ IF CacheHit(cacheFile, albName)
       THEN /\ meta' = cacheFile.data[albName]
            /\ pc' = "resolved"
       ELSE /\ meta' = meta
            /\ pc' = "dlb"
    /\ UNCHANGED <<ctx, err, albName, cacheFile, albARN, calls,
                   cacheBefore, wrote, listVars, schemaVars, ingestVars>>

\* lines 360-375: the identity lookup and the search for the ARN
DescribeLoadBalancers(Answers) ==
    /\ pc = "dlb"
    /\ \E ans \in Answers :
        /\ cancelled => ans.fail
        /\ calls' = calls \cup {"DescribeLoadBalancers"}
        /\ IF ans.fail
           THEN /\ err' = "api error"
                /\ pc' = "failed"
                /\ albARN' = albARN
           ELSE LET arn == FindARN(ans.lbs, albName, 1) IN
                IF arn = <<>>
                THEN /\ err' = "cannot figure out load balancer ARN"
                     /\ pc' = "failed"
                     /\ albARN' = albARN
                ELSE /\ err' = err
                     /\ pc' = "attr"
                     /\ albARN' = arn
    /\ UNCHANGED <<ctx, albName, cacheFile, fullCache, meta,
                   cacheBefore, wrote, listVars, schemaVars, ingestVars>>

\* lines 377-411: the attribute lookup, the scan, accountAndRegion and the
\* best-effort save of the merged cache
DescribeLoadBalancerAttributes(Answers, Writes) ==
    /\ pc = "attr"
    /\ \E ans \in Answers, w \in Writes :
        LET r == FinishResolve(fullCache, albName, albARN, ans) IN
        /\ cancelled => ans.fail
        /\ calls' = calls \cup {"DescribeLoadBalancerAttributes"}
        /\ err' = r.err
        /\ meta' = r.meta
        /\ pc' = IF r.err = NoErr THEN "resolved" ELSE "failed"
        /\ IF r.save
           THEN /\ fullCache' = [isNil |-> FALSE, m |-> r.map]
                /\ cacheFile' = WriteFile(cacheFile, r.map, w)
                /\ wrote' = w
           ELSE UNCHANGED <<fullCache, cacheFile, wrote>>
    /\ UNCHANGED <<ctx, albName, albARN, cacheBefore,
                   listVars, schemaVars, ingestVars>>

\* variant: the break comes one file late
LoopExitLate(k, n, max) == k = n \/ k = max + 1

\* lines 155-158: the range over keys ends, or i == args.MaxSamples breaks
LoopExit(k, n, max) == k = n \/ k = max

\* main, lines 37 and 59: the interrupt signal cancels ctx while run executes
Running == pc \notin {"done", "failed", "cleaned", "arn", "arn_done", "cols", "built"}

\* every file the loop of run will attempt has been committed
WorkDone ==
    \/ pc = "optimize"
    \/ pc = "loop" /\ LoopExit(i, Len(out), maxSamples)

Cancel ==
    /\ Running
    /\ ~cancelled
    /\ cancelled' = TRUE
    /\ cancelAt' = IF WorkDone THEN "after" ELSE "during"
    /\ UNCHANGED <<pc, err, resolveVars, listVars, schemaVars, ingestVars>>

----------------------------------------------------------------------------
(* SpecMeta: resolutions of any names, one program run after the other,     *)
(* against the same cache file                                              *)

NoCancel == "none"

InitLocals ==
    /\ cancelled = FALSE
    /\ cancelAt = NoCancel
    /\ err = NoErr
    /\ fullCache = NoCacheRead
    /\ meta = NoMeta
    /\ calls = {}
    /\ wrote = "none"
    /\ listed = <<>>
    /\ out = <<>>
    /\ npages = 0
    /\ tx = EmptyBag
    /\ ingested = {}
    /\ i = 0
    /\ pos = 0
    /\ attempts = <<>>

InitMeta ==
    /\ InitLocals
    /\ pc = "start"
    /\ albName \in Names
    /\ albARN = <<>>
    /\ refTime = 0
    /\ cacheFile \in {MissingFile, CorruptFile, JsonFile(EmptyMap)}
    /\ cacheBefore = cacheFile
    /\ cols = <<>>
    /\ idx = <<>>
    /\ store = EmptyBag
    /\ maxSamples = 1

\* the next run of the program, for any name
NewResolve ==
    /\ pc \in {"resolved", "failed", "cleaned"}
    /\ pc' = "start"
    /\ albName' \in Names
    /\ cancelled' = FALSE
    /\ cancelAt' = NoCancel
    /\ err' = NoErr
    /\ fullCache' = NoCacheRead
    /\ albARN' = <<>>
    /\ meta' = NoMeta
    /\ calls' = {}
    /\ wrote' = "none"
    /\ cacheBefore' = cacheFile
    /\ UNCHANGED <<cacheFile, listVars, schemaVars, ingestVars>>

\* main, lines 53-57: a run of the program with -clean removes the cache
\* directory and exits
Clean ==
    /\ pc \in {"resolved", "failed"}
    /\ pc' = "cleaned"
    /\ cacheFile' = MissingFile
    /\ cacheBefore' = MissingFile
    /\ cancelled' = FALSE
    /\ cancelAt' = NoCancel
    /\ err' = NoErr
    /\ fullCache' = NoCacheRead
    /\ albARN' = <<>>
    /\ meta' = NoMeta
    /\ calls' = {}
    /\ wrote' = "none"
    /\ UNCHANGED <<albName, listVars, schemaVars, ingestVars>>

NextMeta ==
    \/ ReadCache
    \/ DescribeLoadBalancers(DLBAnswers(albName))
    \/ DescribeLoadBalancerAttributes(AttrAnswers, WriteOutcomes)
    \/ Cancel
    \/ NewResolve
    \/ Clean

SpecMeta == InitMeta /\ [][NextMeta]_vars

----------------------------------------------------------------------------
(* SpecArn: accountAndRegion on every identity string up to MaxArnLen *)

ArnChars == {":", "a"}

InitArn ==
    /\ InitLocals
    /\ pc = "arn"
    /\ albName = "lb1"
    /\ refTime = 0
    /\ cacheFile = MissingFile
    /\ cacheBefore = MissingFile
    /\ cols = <<>>
    /\ idx = <<>>
    /\ store = EmptyBag
    /\ maxSamples = 1
    /\ albARN \in SeqsUpTo(ArnChars, MaxArnLen)

\* line 400: meta.Account, meta.Region, err = accountAndRegion(albARN)
ApplyAccountAndRegion ==
    /\ pc = "arn"
    /\ pc' = "arn_done"
    /\ LET r == accountAndRegion(albARN) IN
        /\ err' = r.err
        /\ meta' = [meta EXCEPT !.Account = r.account, !.Region = r.region]
    /\ UNCHANGED <<ctx, albName, cacheFile, fullCache, albARN, calls,
                   cacheBefore, wrote, listVars, schemaVars, ingestVars>>

NextArn == ApplyAccountAndRegion

SpecArn == InitArn /\ [][NextArn]_vars

----------------------------------------------------------------------------
(* candidateKeys *)

LogGz == <<".", "l", "o", "g", ".", "g", "z">>

\* strings.HasSuffix
HasSuffix(s, suffix) ==
    /\ Len(s) >= Len(suffix)
    /\ SubSeq(s, Len(s) - Len(suffix) + 1, Len(s)) = suffix

\* time.Time.Before and After
Before(t, u) == t < u
After(t, u)  == t > u

FiveMinutes == 5

\* an object of a listing page; Key and LastModified are pointers
Object(k, t)   == [hasKey |-> TRUE,  Key |-> k,    hasTime |-> TRUE,  LastModified |-> t]
ObjectNoKey(t) == [hasKey |-> FALSE, Key |-> <<>>, hasTime |-> TRUE,  LastModified |-> t]
ObjectNoTime(k) == [hasKey |-> TRUE, Key |-> k,    hasTime |-> FALSE, LastModified |-> 0]

\* variant: both ends of the window excluded
KeepObjectOpenWindow(obj, t0) ==
    LET notAfter == t0 + FiveMinutes IN
    /\ ~(~obj.hasTime \/ ~obj.hasKey \/ ~HasSuffix(obj.Key, LogGz))
    /\ After(obj.LastModified, t0) /\ Before(obj.LastModified, notAfter)

\* lines 324 and 332-337: the two `continue` conditions of the loop, negated
KeepObject(obj, t0) ==
    LET notAfter == t0 + FiveMinutes IN
    /\ ~(~obj.hasTime \/ ~obj.hasKey \/ ~HasSuffix(obj.Key, LogGz))
    /\ ~(Before(obj.LastModified, t0) \/ After(obj.LastModified, notAfter))

\* lines 326-330: the next page is asked for; the call fails or answers
NextPage ==
    /\ pc = "list"
    /\ \/ /\ err' = "list error"
          /\ out' = <<>>
          /\ pc' = "failed"
          /\ npages' = npages
       \/ /\ ~cancelled
          /\ npages < MaxPages
          /\ npages' = npages + 1
          /\ pc' = "page"
          /\ UNCHANGED <<err, out>>
    /\ UNCHANGED <<ctx, resolveVars, refTime, listed, schemaVars, ingestVars>>

\* lines 331-339: one object of page.Contents
ListObject(Objects) ==
    /\ pc = "page"
    /\ Len(listed) < MaxObjs
    /\ \E obj \in Objects :
        /\ listed' = Append(listed, obj)
        /\ out' = IF KeepObject(obj, refTime) THEN Append(out, obj.Key) ELSE out
    /\ UNCHANGED <<pc, ctx, err, resolveVars, refTime, npages,
                   schemaVars, ingestVars>>

\* lines 326 and 341: the page is exhausted; p.HasMorePages() decides between
\* another page and the return of out
EndPage ==
    /\ pc = "page"
    /\ \E more \in BOOLEAN :
        /\ more => npages < MaxPages
        /\ pc' = IF more THEN "list" ELSE "listed"
        /\ npages' = IF more THEN npages ELSE 0
    /\ UNCHANGED <<ctx, err, resolveVars, refTime, listed, out, schemaVars, ingestVars>>

----------------------------------------------------------------------------
(* SpecKeys: candidateKeys over every listing of the objects below *)

KeyA    == <<"a">> \o LogGz            \* a.log.gz
KeyBare == LogGz                       \* .log.gz
KeyTmp  == <<"a">> \o LogGz \o <<"x">> \* a.log.gzx
KeyShort == <<"g", "z">>               \* gz

RefTimes  == {1, 2}
ListTimes == {0, 1, 2, 4, 6, 7, 8}

KeyObjects ==
    {Object(k, t) : k \in {KeyA, KeyTmp}, t \in ListTimes}
    \cup {Object(k, t) : k \in {KeyBare, KeyShort}, t \in {2, 8}}
    \cup {ObjectNoKey(4), ObjectNoTime(KeyA)}

InitKeys ==
    /\ InitLocals
    /\ pc = "list"
    /\ albName = "lb1"
    /\ albARN = <<>>
    /\ refTime \in RefTimes
    /\ cacheFile = MissingFile
    /\ cacheBefore = MissingFile
    /\ cols = <<>>
    /\ idx = <<>>
    /\ store = EmptyBag
    /\ maxSamples = 1

NextKeys ==
    \/ NextPage
    \/ ListObject(KeyObjects)
    \/ EndPage

SpecKeys == InitKeys /\ [][NextKeys]_vars

----------------------------------------------------------------------------
(* databaseSchema and insertStatement *)

RCT == "request_creation_time"
TID == "trace_id"

\* the switch on the column name, lines 243-251
ColType(col) ==
    IF col \in {"elb_status_code", "target_status_code", "received_bytes",
                "sent_bytes", "matched_rule_priority"} THEN "INTEGER"
    ELSE IF col \in {"request_processing_time", "target_processing_time",
                     "response_processing_time"} THEN "REAL"
    ELSE ""

Range(s) == {s[k] : k \in 1..Len(s)}

newFieldSet(ss) == Range(ss)

\* variant: one of the given names is in the set
hasAny(fs, fields) == \E k \in 1..Len(fields) : fields[k] \in fs

\* fieldSet.has: every given name is in the set
has(fs, fields) == \A k \in 1..Len(fields) : fields[k] \in fs

\* the two statements of databaseSchema: the columns of table logs with their
\* declared type, and the columns of unique index idx0
databaseSchema(c) ==
    [ table |-> [k \in 1..Len(c) |-> [name |-> c[k], type |-> ColType(c[k])]],
      index |-> IF has(newFieldSet(c), <<RCT, TID>>) THEN <<RCT, TID>> ELSE c ]

\* variant: "insert into logs"
insertStatementPlain(c) == [orIgnore |-> FALSE, values |-> c]

\* insertStatement: "insert or ignore into logs values(@col, ...)", the
\* parameters named after the columns, in their order
insertStatement(c) == [orIgnore |-> TRUE, values |-> c]

----------------------------------------------------------------------------
(* SpecSchema: databaseSchema on every duplicate-free field list (the        *)
(* generator of fields.txt rejects a list that repeats a name)              *)

FieldNames == {RCT, TID, "elb_status_code", "request_processing_time", "type"}

FieldLists(n) ==
    {l \in SeqsUpTo(FieldNames, n) : \A a, b \in 1..Len(l) : a # b => l[a] # l[b]}

InitSchema ==
    /\ InitLocals
    /\ pc = "cols"
    /\ albName = "lb1"
    /\ albARN = <<>>
    /\ refTime = 0
    /\ cacheFile = MissingFile
    /\ cacheBefore = MissingFile
    /\ cols \in FieldLists(MaxCols)
    /\ idx = <<>>
    /\ store = EmptyBag
    /\ maxSamples = 1

\* lines 149-153: the statements of databaseSchema(cols) are executed
BuildSchema ==
    /\ pc = "cols"
    /\ pc' = "built"
    /\ idx' = databaseSchema(cols).index
    /\ UNCHANGED <<ctx, err, resolveVars, listVars, cols, ingestVars>>

NextSchema == BuildSchema

SpecSchema == InitSchema /\ [][NextSchema]_vars

----------------------------------------------------------------------------
(* The store: table logs with unique index idx0, as sqlite keeps them *)

\* position of a column in the table
ColPos(c, name) == CHOOSE k \in 1..Len(c) : c[k] = name

\* lines 225-228: insertArgs, each field named after the column at its position
NamedArgs(c, fields) == [n \in Range(c) |-> fields[ColPos(c, n)]]

\* the values a row holds in the columns of the unique index
IndexKey(c, index, row) == [k \in 1..Len(index) |-> row[ColPos(c, index[k])]]

\* line 229, st.ExecContext: the statement run on the table inside the
\* transaction. A row whose index key is already in the table is skipped by
\* "insert or ignore" and is a constraint error for a plain insert. Values are
\* compared as the text read from the file; request_creation_time and
\* trace_id are declared without a type.
ExecInsert(stmt, c, index, table, args) ==
    LET row      == [k \in 1..Len(stmt.values) |-> args[stmt.values[k]]]
        conflict == \E r \in BagToSet(table) :
                        IndexKey(c, index, r) = IndexKey(c, index, row)
    IN  IF conflict
        THEN [err |-> IF stmt.orIgnore THEN NoErr ELSE "constraint failed",
              table |-> table]
        ELSE [err |-> NoErr, table |-> table (+) SetToBag({row})]

\* variant: the rows inserted before the error stay
RollbackKeeps(committed, pending) == pending

\* line 210, the deferred tx.Rollback(): the table is what was committed
Rollback(committed, pending) == committed

\* variant: a commit that does not look at the context
CommitFailsIoOnly(c, ioerr) == ioerr

\* line 233, tx.Commit(): it fails on a done context and on an I/O error
CommitFails(c, ioerr) == c \/ ioerr

----------------------------------------------------------------------------
(* The log files of the bucket *)

File1 == <<"1">> \o LogGz
File2 == <<"2">> \o LogGz
File3 == <<"3">> \o LogGz
File4 == <<"4">> \o LogGz
File5 == <<"5">> \o LogGz

\* what GetObject returns for a key: whether the body starts as a gzip stream,
\* the records of its lines, and whether the stream breaks after them
Body(key) ==
    CASE key = File1 -> [gzip |-> TRUE, broken |-> FALSE,
                         records |-> << <<"t1", "a", "200">>, <<"t2", "b", "200">> >>]
      [] key = File2 -> [gzip |-> TRUE, broken |-> FALSE,
                         records |-> << <<"t2", "b", "500">>, <<"t3", "c", "200">> >>]
      [] key = File3 -> [gzip |-> TRUE, broken |-> FALSE,
                         records |-> << <<"t4", "d", "200">>, <<"t5", "e">> >>]
      [] key = File4 -> [gzip |-> FALSE, broken |-> FALSE, records |-> <<>>]
      [] key = File5 -> [gzip |-> TRUE, broken |-> TRUE,
                         records |-> << <<"t6", "f", "200">> >>]

----------------------------------------------------------------------------
(* run and ingestLogFile, step by step *)

\* lines 102-107: args.populate() and the check of the name
Populate ==
    /\ pc = "populate"
    /\ IF maxSamples < 1
       THEN /\ err' = "number of candidate log files must be a positive number"
            /\ pc' = "failed"
       ELSE IF albName = ""
       THEN /\ err' = "invalid usage"
            /\ pc' = "failed"
       ELSE /\ err' = err
            /\ pc' = "start"
    /\ UNCHANGED <<ctx, resolveVars, listVars, schemaVars, ingestVars>>

\* lines 116-123: the metadata is there, the listing starts
StartListing ==
    /\ pc = "resolved"
    /\ pc' = "list"
    /\ UNCHANGED <<ctx, err, resolveVars, listVars, schemaVars, ingestVars>>

\* lines 127-153: no key is an error; the store is opened and the statements
\* of databaseSchema are executed ("if not exists": an index already there stays)
OpenStore ==
    /\ pc = "listed"
    /\ IF Len(out) = 0
       THEN /\ err' = "no candidate log files found"
            /\ pc' = "failed"
            /\ idx' = idx
       ELSE \E ioerr \in BOOLEAN :
            /\ cancelled => ioerr
            /\ IF ioerr
               THEN /\ err' = "store error"
                    /\ pc' = "failed"
                    /\ idx' = idx
               ELSE /\ err' = err
                    /\ pc' = "loop"
                    /\ idx' = IF idx = <<>> THEN databaseSchema(cols).index ELSE idx
    /\ UNCHANGED <<ctx, resolveVars, listVars, cols, ingestVars>>

\* lines 155-159: the head of the loop over keys
LoopHead ==
    /\ pc = "loop"
    /\ IF LoopExit(i, Len(out), maxSamples)
       THEN /\ pc' = "optimize"
            /\ attempts' = attempts
       ELSE /\ pc' = "fetch"
            /\ attempts' = Append(attempts,
                  [key |-> out[i + 1], outcome |-> "started", before |-> store,
                   again |-> out[i + 1] \in ingested])
    /\ UNCHANGED <<ctx, err, resolveVars, listVars, schemaVars,
                   store, tx, maxSamples, i, pos, ingested>>

SetOutcome(o) == [attempts EXCEPT ![Len(attempts)].outcome = o]

\* the error return of ingestLogFile and of run, lines 160-162; the deferred
\* tx.Rollback() has run
Abort(e) ==
    /\ err' = e
    /\ pc' = "failed"
    /\ store' = Rollback(store, tx)
    /\ tx' = EmptyBag
    /\ attempts' = SetOutcome("failed")
    /\ UNCHANGED <<i, pos, ingested>>

\* lines 187-199: GetObject and gzip.NewReader
Fetch ==
    /\ pc = "fetch"
    /\ \E ioerr \in BOOLEAN :
        /\ cancelled => ioerr
        /\ IF ioerr THEN Abort("get object error")
           ELSE IF ~Body(out[i + 1]).gzip THEN Abort("gzip: invalid header")
           ELSE /\ pc' = "begin"
                /\ pos' = 0
                /\ UNCHANGED <<err, store, tx, attempts, i, ingested>>
    /\ UNCHANGED <<ctx, resolveVars, listVars, schemaVars, maxSamples>>

\* lines 206-215: BeginTx and PrepareContext
Begin ==
    /\ pc = "begin"
    /\ \E ioerr \in BOOLEAN :
        /\ cancelled => ioerr
        /\ IF ioerr THEN Abort("begin error")
           ELSE /\ pc' = "read"
                /\ tx' = store
                /\ UNCHANGED <<err, store, attempts, i, pos, ingested>>
    /\ UNCHANGED <<ctx, resolveVars, listVars, schemaVars, maxSamples>>

\* lines 217-232: one turn of the loop: rd.Read with FieldsPerRecord =
\* len(cols), then the insert of the record
ReadRecord ==
    /\ pc = "read"
    /\ LET body == Body(out[i + 1]) IN
       IF pos = Len(body.records)
       THEN IF body.broken THEN Abort("gzip: unexpected EOF")
            ELSE /\ pc' = "commit"
                 /\ UNCHANGED <<err, store, tx, attempts, i, pos, ingested>>
       ELSE LET fields == body.records[pos + 1] IN
            IF Len(fields) # Len(cols) THEN Abort("wrong number of fields")
            ELSE \E ioerr \in BOOLEAN :
                 /\ cancelled => ioerr
                 /\ LET r == ExecInsert(insertStatement(cols), cols, idx, tx,
                                        NamedArgs(cols, fields)) IN
                    IF ioerr THEN Abort("exec error")
                    ELSE IF r.err # NoErr THEN Abort(r.err)
                    ELSE /\ tx' = r.table
                         /\ pos' = pos + 1
                         /\ UNCHANGED <<pc, err, store, attempts, i, ingested>>
    /\ UNCHANGED <<ctx, resolveVars, listVars, schemaVars, maxSamples>>

\* line 233: tx.Commit(), and the next turn of the loop of run
Commit ==
    /\ pc = "commit"
    /\ \E ioerr \in BOOLEAN :
        IF CommitFails(cancelled, ioerr) THEN Abort("commit error")
        ELSE /\ store' = tx
             /\ tx' = EmptyBag
             /\ i' = i + 1
             /\ pc' = "loop"
             /\ attempts' = SetOutcome("committed")
             /\ ingested' = ingested \cup {out[i + 1]}
             /\ UNCHANGED <<err, pos>>
    /\ UNCHANGED <<ctx, resolveVars, listVars, schemaVars, maxSamples>>

\* lines 164-181: PRAGMA optimize, its error dropped, then db.Close()
Finish ==
    /\ pc = "optimize"
    /\ \E closeErr \in BOOLEAN :
        IF closeErr THEN /\ err' = "close error"
                         /\ pc' = "failed"
        ELSE /\ err' = err
             /\ pc' = "done"
    /\ UNCHANGED <<ctx, resolveVars, listVars, schemaVars, ingestVars>>

----------------------------------------------------------------------------
(* Spec: runs of the program, one after the other, against the same store   *)
(* and cache file                                                           *)

RunSchemas == { <<RCT, TID, "elb_status_code">>, <<"type", RCT, "elb_status_code">> }

\* every log file of the bucket, modified at the reference time
RunObjects == {Object(k, refTime) : k \in {File1, File2, File3, File4, File5}}

RunDLBAnswers(name) ==
    { [fail |-> TRUE, lbs |-> <<>>],
      [fail |-> FALSE, lbs |-> <<[LoadBalancerName |-> name, LoadBalancerArn |-> Arn6]>>] }

RunAttrAnswers ==
    { [fail |-> TRUE, attrs |-> <<>>],
      [fail |-> FALSE, attrs |-> <<[Key |-> "access_logs.s3.bucket", Value |-> "b1"]>>] }

Init ==
    /\ InitLocals
    /\ pc = "populate"
    /\ albName \in {"lb1", ""}
    /\ albARN = <<>>
    /\ refTime = 1
    /\ cacheFile = MissingFile
    /\ cacheBefore = MissingFile
    /\ cols \in RunSchemas
    /\ idx = <<>>
    /\ store = EmptyBag
    /\ maxSamples \in 0..MaxSamplesBound

\* the program is started again with the same arguments
NewRun ==
    /\ pc \in {"done", "failed"}
    /\ pc' = "populate"
    /\ cancelled' = FALSE
    /\ cancelAt' = NoCancel
    /\ err' = NoErr
    /\ fullCache' = NoCacheRead
    /\ albARN' = <<>>
    /\ meta' = NoMeta
    /\ calls' = {}
    /\ wrote' = "none"
    /\ cacheBefore' = cacheFile
    /\ listed' = <<>>
    /\ out' = <<>>
    /\ npages' = 0
    /\ tx' = EmptyBag
    /\ i' = 0
    /\ pos' = 0
    /\ attempts' = <<>>
    /\ UNCHANGED <<albName, cacheFile, refTime, schemaVars, store, maxSamples, ingested>>

Next ==
    \/ Populate
    \/ ReadCache
    \/ DescribeLoadBalancers(RunDLBAnswers(albName))
    \/ DescribeLoadBalancerAttributes(RunAttrAnswers, {"ok", "fail"})
    \/ StartListing
    \/ NextPage
    \/ ListObject(RunObjects)
    \/ EndPage
    \/ OpenStore
    \/ LoopHead
    \/ Fetch
    \/ Begin
    \/ ReadRecord
    \/ Commit
    \/ Finish
    \/ Cancel
    \/ NewRun

Spec == Init /\ [][Next]_vars

----------------------------------------------------------------------------
(* Properties *)

LastAttempt == attempts[Len(attempts)]

HasBothFields == RCT \in Range(cols) /\ TID \in Range(cols)

\* the rows the commit of attempt k added to the store
CommittedBy(k) == attempts[k + 1].before (-) attempts[k].before

\* every file attempted before the last one was committed and what it added
\* is in the store, every one of its records being there under its index key
EarlierFilesRemain ==
    \A k \in 1..(Len(attempts) - 1) :
        /\ attempts[k].outcome = "committed"
        /\ CommittedBy(k) \sqsubseteq store
        /\ \A n \in 1..Len(Body(attempts[k].key).records) :
            \E r \in BagToSet(store) :
                IndexKey(cols, idx, r) = IndexKey(cols, idx, Body(attempts[k].key).records[n])

\* C1: when the ingestion of a file fails (wrong field count, decompression
\* failure, insert or other error), the store holds exactly the rows it held
\* before that file was attempted, so no row of that file, and every row
\* committed from the files processed earlier in the run is still there.
C1_FailedFileLeavesNoRow ==
    (attempts # <<>> /\ LastAttempt.outcome = "failed") =>
        /\ store = LastAttempt.before
        /\ tx = EmptyBag
        /\ EarlierFilesRemain

\* a file failed on a record with a wrong field count after one of its rows
\* had been inserted in the transaction, an earlier file having been committed
C1_Witness ==
    /\ pc = "failed"
    /\ Len(attempts) = 2
    /\ LastAttempt.outcome = "failed"
    /\ err = "wrong number of fields"
    /\ pos = 1
    /\ store # EmptyBag

EnvironmentErrors == {"get object error", "begin error", "exec error", "commit error"}

\* C2: with request_creation_time and trace_id in the schema, ingesting a
\* file that was committed before (in this run or an earlier one) does not
\* fail on its content, and once committed leaves the store with the rows,
\* and the number of rows, it had before.
C2_ReingestIsIdempotent ==
    (HasBothFields /\ attempts # <<>> /\ LastAttempt.again) =>
        /\ LastAttempt.outcome = "committed" => store = LastAttempt.before
        /\ LastAttempt.outcome = "failed" => err \in EnvironmentErrors
        /\ \A r \in BagToSet(store) : CopiesIn(r, store) = 1

C2_Witness ==
    /\ HasBothFields
    /\ attempts # <<>>
    /\ LastAttempt.again
    /\ LastAttempt.outcome = "committed"
    /\ BagCardinality(store) >= 2

\* C3: when the cache file is readable JSON holding an entry for the name,
\* the resolution returns that entry and calls neither DescribeLoadBalancers
\* nor DescribeLoadBalancerAttributes.
C3_CacheHitMakesNoCall ==
    (/\ pc \notin {"start", "cleaned"}
     /\ cacheBefore.kind = "json"
     /\ albName \in DOMAIN cacheBefore.data) =>
        /\ pc = "resolved"
        /\ err = NoErr
        /\ calls = {}
        /\ meta = cacheBefore.data[albName]

C3_Witness ==
    /\ pc = "resolved"
    /\ cacheBefore.kind = "json"
    /\ albName \in DOMAIN cacheBefore.data
    /\ calls = {}
    /\ meta # NoMeta

\* C4: a resolution that writes the cache file writes the entries the file
\* held before, each with its value, together with the new entry.
C4_WriteMergesIntoCache ==
    (pc = "resolved" /\ wrote = "ok") =>
        /\ cacheFile.kind = "json"
        /\ albName \in DOMAIN cacheFile.data
        /\ cacheFile.data[albName] = meta
        /\ \A n \in DOMAIN cacheBefore.data :
            /\ n \in DOMAIN cacheFile.data
            /\ cacheFile.data[n] = cacheBefore.data[n]

\* the file held the entry of another name when the new one was written
C4_Witness ==
    /\ pc = "resolved"
    /\ wrote = "ok"
    /\ \E n \in DOMAIN cacheBefore.data : n # albName
    /\ Cardinality(DOMAIN cacheFile.data) = 2

\* the test of the claim, stated on its own: suffix .log.gz and
\* t <= lastModified <= t + 5 minutes
Wanted(obj, t) ==
    /\ obj.hasKey
    /\ obj.hasTime
    /\ \E n \in 0..Len(obj.Key) : obj.Key = SubSeq(obj.Key, 1, n) \o LogGz
    /\ t <= obj.LastModified
    /\ obj.LastModified <= t + 5

WantedKeys ==
    LET Test(obj) == Wanted(obj, refTime)
        sel == SelectSeq(listed, Test)
    IN  [k \in 1..Len(sel) |-> sel[k].Key]

\* C5: candidateKeys has collected, and returns, exactly the keys of the
\* listed objects that end in .log.gz and were modified within
\* [t, t + 5 minutes], in listing order; objects without key or timestamp are
\* skipped, and only a failed page makes it fail.
C5_ExactlyTheWindow ==
    /\ pc \in {"list", "page", "listed"} => out = WantedKeys
    /\ pc = "failed" => err = "list error" /\ out = <<>>

\* a listing of three objects returned: one at the end of the window kept,
\* one just after it dropped, one without a key skipped
C5_Witness ==
    /\ pc = "listed"
    /\ Len(listed) = 3
    /\ Len(out) = 1
    /\ \E k \in 1..3 : listed[k] = Object(KeyA, refTime + FiveMinutes)
    /\ \E k \in 1..3 : listed[k] = Object(KeyA, refTime + FiveMinutes + 1)
    /\ \E k \in 1..3 : ~listed[k].hasKey

\* the number of colon-delimited fields of a string
NumFields(s) == 1 + Cardinality({k \in 1..Len(s) : s[k] = ":"})

\* C6 (as amended): accountAndRegion fails exactly on the strings with fewer
\* than six colon-delimited fields; a string with six or more succeeds.
C6_FailsIffFewerThanSix ==
    pc = "arn_done" => (err # NoErr <=> NumFields(albARN) < 6)

\* C6 (as claimed): accountAndRegion succeeds only on the strings with
\* exactly six colon-delimited fields.
C6_FailsUnlessExactlySix ==
    pc = "arn_done" => (err = NoErr <=> NumFields(albARN) = 6)

C6_Witness ==
    /\ pc = "arn_done"
    /\ NumFields(albARN) > 6
    /\ err = NoErr

\* C7 (as amended): a signal that arrives while the run still has work to do
\* (before the commit of the last file it will attempt begins) ends the run in
\* error; the files committed stay committed, and the transaction of the
\* file in progress is rolled back, leaving none of its rows.
C7_CancelDuringWorkFails ==
    (cancelled /\ pc \in {"done", "failed"}) =>
        /\ cancelAt = "during" => pc = "failed" /\ err # NoErr
        /\ attempts # <<>> =>
            /\ LastAttempt.outcome \in {"committed", "failed"}
            /\ LastAttempt.outcome = "failed" => store = LastAttempt.before /\ tx = EmptyBag
            /\ EarlierFilesRemain

\* C7 (as claimed): a signal at any point of the run ends it in error.
C7_CancelAlwaysFails ==
    (cancelled /\ pc \in {"done", "failed"}) => err # NoErr

\* the signal arrived while the second file was being ingested, one row
\* already inserted in its transaction
C7_Witness ==
    /\ cancelled
    /\ cancelAt = "during"
    /\ pc = "failed"
    /\ Len(attempts) = 2
    /\ LastAttempt.outcome = "failed"
    /\ pos = 1
    /\ err = "exec error"
    /\ store # EmptyBag

\* C8: the unique index is (request_creation_time, trace_id) when the field
\* list holds both names, and otherwise every column of the list, once and in
\* the order of the list.
C8_IndexColumns ==
    pc = "built" =>
        IF RCT \in Range(cols) /\ TID \in Range(cols)
        THEN idx = <<RCT, TID>>
        ELSE /\ idx = cols
             /\ \A n \in Range(cols) : Cardinality({k \in 1..Len(idx) : idx[k] = n}) = 1

\* both names in the list, trace_id first: the index still starts with
\* request_creation_time
C8_Witness ==
    /\ pc = "built"
    /\ Len(cols) = 3
    /\ cols[1] = TID
    /\ cols[3] = RCT
    /\ idx = <<RCT, TID>>

Min(a, b) == IF a < b THEN a ELSE b

\* C9: the files attempted are the first candidates in listing order, at most
\* args.MaxSamples of them; each one but the last attempted was committed; a
\* failed file is the last one attempted and the run ends in error; a run
\* that ends without error has committed min(MaxSamples, number of
\* candidates) files.
C9_InOrderUpToMax ==
    /\ Len(attempts) <= maxSamples
    /\ Len(attempts) <= Len(out)
    /\ \A k \in 1..Len(attempts) : attempts[k].key = out[k]
    /\ \A k \in 1..(Len(attempts) - 1) : attempts[k].outcome = "committed"
    /\ (attempts # <<>> /\ LastAttempt.outcome = "failed") => pc = "failed" /\ err # NoErr
    /\ pc = "done" =>
        /\ err = NoErr
        /\ Len(attempts) = Min(maxSamples, Len(out))
        /\ LastAttempt.outcome = "committed"

\* three candidates, -n 2: two files committed, the third left alone
C9_Witness ==
    /\ pc = "done"
    /\ Len(out) = 3
    /\ maxSamples = 2
    /\ Len(attempts) = 2
    /\ err = NoErr

BothCalls == {"DescribeLoadBalancers", "DescribeLoadBalancerAttributes"}

\* C10: os.WriteFile is called, and the cache file differs from what it was
\* when the resolution started, only when the resolution missed the cache,
\* made both calls and succeeded.
C10_OnlySuccessfulMissWrites ==
    (cacheFile # cacheBefore \/ wrote # "none") =>
        /\ pc = "resolved"
        /\ err = NoErr
        /\ calls = BothCalls
        /\ ~(cacheBefore.kind = "json" /\ albName \in DOMAIN cacheBefore.data)

\* a resolution failed at its last step, the malformed ARN, with entries in
\* the cache file
C10_Witness ==
    /\ pc = "failed"
    /\ err = "bad ARN format"
    /\ calls = BothCalls
    /\ cacheFile = cacheBefore
    /\ DOMAIN cacheFile.data # {}
====
